---- MODULE Spec2Model ----
(***************************************************************************)
(* The transaction orchestrator of the WalletConnection component          *)
(* (createToken, mintTokens, transferTokens, fetchTokenBalance) as a state *)
(* machine.  Every await of a collaborator call (RPC client, wallet        *)
(* signing provider) is one step; the synchronous code between two awaits  *)
(* belongs to the step that resumes it.                                    *)
(***************************************************************************)
EXTENDS Integers, Sequences, FiniteSets, TLC

\* ------------------------------------------------------------------ bounds
\* Number of invocations that may pass their precondition checks.
MaxInvocations == 3

\* ------------------------------------------------------- values and inputs
NoWallet == "none"
Wallets == {"W1", "V"}
\* A second wallet of the same user, used by the sessions of SpecWallets only.
SecondWallet == "W2"
\* Wallets whose adapter offers signTransaction ("V" is a view-only adapter).
SigningWallets == {"W1", SecondWallet}
\* The two revisions of WalletConnection: the second attaches token metadata
\* in createToken and asks for a token name and symbol.
Revisions == {"plain", "metadata"}
NameInputs == {"", "TKN"}
NoKey == 0
NoAccount == <<>>
NoSignature == <<>>
\* The signature the cluster returns for the k-th transaction that invocation n
\* submits: no two submissions share one.
Signature(n, k) == <<n, k>>

\* The fields mintAmount, transferAmount and recipientAddress hold what the user
\* typed when a handler is called: they are the inputs of the handler.
\* Free-text contents of an amount field, as sequences of characters.
AmountInputs ==
  { <<>>, <<"a">>, <<"1", "a">>, <<"0">>, <<"-", "1">>, <<"1">>, <<"2">> }
\* Contents of the recipient field; "R1" is a well-formed address of another
\* owner, "zz" is not a base58 public key.
RecipientInputs == { "", "R1", "zz" }
ValidAddresses == Wallets \cup {"R1"}

Digits == {"0", "1", "2", "3", "4", "5", "6", "7", "8", "9"}
DigitVal(c) ==
  CASE c = "0" -> 0 [] c = "1" -> 1 [] c = "2" -> 2 [] c = "3" -> 3
    [] c = "4" -> 4 [] c = "5" -> 5 [] c = "6" -> 6 [] c = "7" -> 7
    [] c = "8" -> 8 [] c = "9" -> 9

\* Longest prefix of s made of decimal digits.
RECURSIVE DigitPrefix(_)
DigitPrefix(s) ==
  IF s = <<>> \/ Head(s) \notin Digits THEN <<>>
  ELSE <<Head(s)>> \o DigitPrefix(Tail(s))

RECURSIVE DigitsValue(_, _)
DigitsValue(s, acc) ==
  IF s = <<>> THEN acc ELSE DigitsValue(Tail(s), 10 * acc + DigitVal(Head(s)))

NaN == [nan |-> TRUE, val |-> 0]
Num(n) == [nan |-> FALSE, val |-> n]

\* parseFloat: an optional sign, then the longest numeric prefix; whatever
\* follows the prefix is ignored; NaN when there is no numeric prefix.
parseFloat(s) ==
  LET neg == s # <<>> /\ Head(s) = "-"
      body == IF s # <<>> /\ Head(s) \in {"-", "+"} THEN Tail(s) ELSE s
      ds == DigitPrefix(body)
  IN IF ds = <<>> THEN NaN
     ELSE Num(IF neg THEN 0 - DigitsValue(ds, 0) ELSE DigitsValue(ds, 0))

isNaN(x) == x.nan
\* Comparisons with NaN are false.
LessEq(x, n) == ~x.nan /\ x.val <= n
Greater(x, n) == ~x.nan /\ x.val > n

\* The whole string is a number (what "numeric" means for a user's input).
IsNumeric(s) ==
  LET body == IF s # <<>> /\ Head(s) \in {"-", "+"} THEN Tail(s) ELSE s
  IN body # <<>> /\ DigitPrefix(body) = body

\* new PublicKey(address) throws on a string that is no public key.
IsPublicKey(address) == address \in ValidAddresses

\* getAssociatedTokenAddress: the address derived from (mint, owner).
getAssociatedTokenAddress(mint, owner) == <<mint, owner>>

\* ---------------------------------------------------------------- state
VARIABLES
  revision,            \* which revision of the component runs (fixed at start)
  publicKey,           \* useWallet().publicKey: the connected address or NoWallet
  tokenMint,           \* useState tokenMint
  tokenAccount,        \* useState tokenAccount
  tokenBalance,        \* useState tokenBalance
  isLoading,           \* useState isLoading
  transactionHistory,  \* useState transactionHistory
  inv,                 \* the invocation in flight (or the last one): its position,
                       \* the values its closure captured, what it has done so far
  reads,               \* accounts with an effect-triggered fetchTokenBalance in flight
  ledger,              \* the cluster: token account -> quantity held
  started,             \* invocations that passed their precondition checks
  clock,               \* source of new Date()
  generated            \* the mint keys Keypair.generate() has returned, in order

vars ==
  << revision, publicKey, tokenMint, tokenAccount, tokenBalance, isLoading,
     transactionHistory, inv, reads, ledger, started, clock, generated >>

\* useWallet().signTransaction is defined only while a signing adapter is connected.
signTransaction(w) == w \in SigningWallets

\* A Transaction object: its instructions in order, and whether recentBlockhash
\* and feePayer have been assigned.
NoTransaction ==
  [ instructions |-> <<>>, recentBlockhash |-> FALSE, feePayer |-> NoWallet ]
\* new Transaction().add(...)
NewTransaction(instrs) == [NoTransaction EXCEPT !.instructions = instrs]
\* A transaction given its blockhash but no fee payer.
SetBlockhashOnly(tx, payer) == [tx EXCEPT !.recentBlockhash = TRUE]

\* transaction.recentBlockhash = blockhash; transaction.feePayer = publicKey
SetBlockhashAndFeePayer(tx, payer) ==
  [tx EXCEPT !.recentBlockhash = TRUE, !.feePayer = payer]

Toast(level, text) == [level |-> level, text |-> text]

Snapshot ==
  [ history |-> transactionHistory, tokenMint |-> tokenMint,
    tokenAccount |-> tokenAccount, tokenBalance |-> tokenBalance,
    isLoading |-> isLoading ]

IdleInvocation ==
  [ op |-> "none", pc |-> "idle", outcome |-> "none",
    publicKey |-> NoWallet, tokenMint |-> NoKey, tokenAccount |-> NoAccount,
    text |-> <<>>, amount |-> 0, recipient |-> "", id |-> 0, mintKey |-> NoKey, signature |-> NoSignature,
    ataSignature |-> NoSignature, txSignature |-> NoSignature,
    withCreate |-> FALSE, netCalls |-> 0, signCalls |-> 0, built |-> 0,
    confirmations |-> 0, failedAt |-> "",
    transaction |-> NoTransaction, probed |-> FALSE, txErrors |-> 0,
    readFailed |-> FALSE,
    toasts |-> <<>>,
    pre |-> [ history |-> <<>>, tokenMint |-> NoKey, tokenAccount |-> NoAccount,
              tokenBalance |-> 0, isLoading |-> FALSE ] ]

\* The closure of a handler: the state of the render it was created in.
NewInvocation(op) ==
  [ IdleInvocation EXCEPT
      !.op = op, !.publicKey = publicKey, !.tokenMint = tokenMint,
      !.tokenAccount = tokenAccount, !.pre = Snapshot ]

Init ==
  /\ revision \in Revisions
  /\ publicKey = NoWallet
  /\ tokenMint = NoKey
  /\ tokenAccount = NoAccount
  /\ tokenBalance = 0
  /\ isLoading = FALSE
  /\ transactionHistory = <<>>
  /\ inv = IdleInvocation
  /\ reads = {}
  /\ ledger = <<>>
  /\ started = 0
  /\ clock = 1
  /\ generated = <<>>

\* No handler is between its call and its return: the event loop is free to
\* deliver the next event (a click, a wallet event, a completed read).
Quiescent == inv.pc = "idle"

\* The handler's promise has settled (pc = "done" shows what the call did).
Return ==
  /\ inv.pc = "done"
  /\ inv' = IdleInvocation
  /\ UNCHANGED << revision, publicKey, tokenMint, tokenAccount, tokenBalance,
                  isLoading, transactionHistory, reads, ledger, started,
                  clock, generated >>

\* ------------------------------------------------------ transaction log
\* A record written before the signature is known.
CreationRecordUnsigned(sig, ts) ==
  [ type |-> "Token Creation", signature |-> NoSignature, timestamp |-> ts,
    status |-> "pending" ]

CreationRecord(sig, ts) ==
  [ type |-> "Token Creation", signature |-> sig, timestamp |-> ts,
    status |-> "pending" ]
MintRecord(sig, ts, amt) ==
  [ type |-> "Token Mint", signature |-> sig, timestamp |-> ts, amount |-> amt,
    status |-> "pending" ]

\* A transfer record built like a mint record.
TransferRecordNoRecipient(sig, ts, amt, rcpt) ==
  [ type |-> "Token Transfer", signature |-> sig, timestamp |-> ts,
    amount |-> amt, status |-> "pending" ]

\* The record transferTokens appends.
TransferRecord(sig, ts, amt, rcpt) ==
  [ type |-> "Token Transfer", signature |-> sig, timestamp |-> ts,
    amount |-> amt, recipient |-> rcpt, status |-> "pending" ]

\* A success path whose comparison matches no record.
MarkConfirmedNoMatch(h, sig) == h

\* prev.map(tx => tx.signature === signature ? {...tx, status: 'confirmed'} : tx)
MarkConfirmed(h, sig) ==
  [ i \in DOMAIN h |->
      IF h[i].signature = sig THEN [h[i] EXCEPT !.status = "confirmed"] ELSE h[i] ]

\* A catch block that filters the log instead of mapping over it.
MarkFailedDropping(h, type) == SelectSeq(h, LAMBDA tx : tx.type # type)

\* prev.map(tx => tx.type === type ? {...tx, status: 'failed'} : tx)
MarkFailed(h, type) ==
  [ i \in DOMAIN h |->
      IF h[i].type = type THEN [h[i] EXCEPT !.status = "failed"] ELSE h[i] ]

\* ------------------------------------------------- fetchTokenBalance
\* What getAccount/setTokenBalance leave in tokenBalance: the quantity read,
\* or 0 when the read throws (network error, or no such account).
BalanceRead(acct, ok) ==
  IF ok /\ acct \in DOMAIN ledger THEN ledger[acct] ELSE 0

\* getAccount throws: a network error, or no such account.
ReadThrows(acct, ok) == ~(ok /\ acct \in DOMAIN ledger)

\* A component without the effect on [fetchTokenBalance].
EffectReadsNever(pk, acct) == reads

\* The effect on [fetchTokenBalance]: it runs after a render in which publicKey
\* or tokenAccount changed, and issues a read when both are set.
EffectReads(pk, acct) ==
  IF pk # NoWallet /\ acct # NoAccount THEN reads \cup {acct} ELSE reads

EffectReadReturns ==
  \E acct \in reads, ok \in BOOLEAN :
    /\ inv.pc # "done"
    /\ tokenBalance' = BalanceRead(acct, ok)
    /\ reads' = reads \ {acct}
    /\ UNCHANGED << revision, publicKey, tokenMint, tokenAccount, isLoading,
                    transactionHistory, inv, ledger, started, clock, generated >>

\* ------------------------------------------------------ wallet adapter
\* The adapter connects wallet w: publicKey changes, the component renders
\* again and its effects run; no other state of the component is touched.
ConnectAs(w) ==
  /\ inv.pc # "done"
  /\ publicKey = NoWallet
  /\ publicKey' = w
  /\ reads' = EffectReads(w, tokenAccount)
  /\ UNCHANGED << revision, tokenMint, tokenAccount, tokenBalance, isLoading,
                  transactionHistory, inv, ledger, started, clock, generated >>

Connect == \E w \in Wallets : ConnectAs(w)

\* The user connects their second wallet.
ConnectSecond == ConnectAs(SecondWallet)

Disconnect ==
  /\ inv.pc # "done"
  /\ publicKey # NoWallet
  /\ publicKey' = NoWallet
  /\ UNCHANGED << revision, tokenMint, tokenAccount, tokenBalance, isLoading,
                  transactionHistory, inv, reads, ledger, started, clock, generated >>

\* ------------------------------------------------------------ helpers
\* The invocation after one more collaborator call: n RPC calls, s signing requests.
Called(n, s) == [inv EXCEPT !.netCalls = @ + n, !.signCalls = @ + s]

Emit(rec, level, text) == [rec EXCEPT !.toasts = Append(@, Toast(level, text))]

\* A precondition check that fails: a toast, then return.
Rejected(op, r, s, text) ==
  [ Emit(NewInvocation(op), "error", text) EXCEPT
      !.pc = "done", !.outcome = "rejected", !.recipient = r, !.text = s ]

\* The wallet signs only while the adapter that gave the closure its
\* signTransaction is still connected; the user may decline in any case.
CanSign == publicKey = inv.publicKey /\ signTransaction(publicKey)

\* What `await connection.confirmTransaction(signature, 'confirmed')` can do:
\* resolve for a transaction that executed, resolve with a result whose
\* value.err reports that the transaction failed, or throw (timeout, expiry,
\* network).  The handlers discard the resolved value.
ConfirmResults == {"confirmed", "err", "throws"}

\* The invocation after a confirmTransaction call that resolved with res.
AfterConfirm(res) ==
  [ Called(1, 0) EXCEPT
      !.confirmations = @ + (IF res = "confirmed" THEN 1 ELSE 0),
      !.txErrors = @ + (IF res = "err" THEN 1 ELSE 0) ]

\* The invocation after the fetchTokenBalance it awaits has returned; the
\* function swallows a throw of getAccount.
Fetched(ok) ==
  [Called(1, 0) EXCEPT !.readFailed = ReadThrows(inv.tokenAccount, ok)]

\* ------------------------------------------------------------ createToken
\* A first check that forgets `!signTransaction`.
CreatePreconditionUnsigned(name, symbol) ==
  /\ publicKey # NoWallet
  /\ revision = "metadata" => (name # "" /\ symbol # "")

\* The first check of createToken; the metadata revision also wants the token
\* name and symbol fields filled.
CreatePrecondition(name, symbol) ==
  /\ publicKey # NoWallet /\ signTransaction(publicKey)
  /\ revision = "metadata" => (name # "" /\ symbol # "")

\* A catch block that forgets the log.
CatchCreateUnmarked(rec) ==
  /\ UNCHANGED transactionHistory
  /\ isLoading' = FALSE
  /\ inv' = [ Emit(rec, "error", "Token creation failed") EXCEPT
                !.pc = "done", !.outcome = "failed", !.failedAt = rec.pc ]

\* catch + finally of createToken, entered from the invocation record rec.
CatchCreate(rec) ==
  /\ transactionHistory' = MarkFailed(transactionHistory, "Token Creation")
  /\ isLoading' = FALSE
  /\ inv' = [ Emit(rec, "error", "Token creation failed") EXCEPT
                !.pc = "done", !.outcome = "failed", !.failedAt = rec.pc ]

\* A statement after the commit throws: the catch block runs with the pair
\* already stored.
FinishCreateThrowing(rec) == CatchCreate([rec EXCEPT !.pc = "c_finish"])

\* The statements after `await fetchTokenBalance()` and the finally block.
FinishCreate(rec) ==
  /\ transactionHistory' = MarkConfirmed(transactionHistory, rec.signature)
  /\ isLoading' = FALSE
  /\ inv' = [ Emit(rec, "success",
                   IF revision = "plain" THEN "Token created successfully!"
                   ELSE "Token created successfully with metadata!") EXCEPT
                !.pc = "done", !.outcome = "success" ]

\* A keypair generated once and kept for later calls.
KeypairReused == IF generated = <<>> THEN 1 ELSE generated[1]

\* Keypair.generate(): a new random keypair on every call, i.e. a key that no
\* earlier call returned.
KeypairGenerate == started + 1

\* The user has filled the name and symbol fields (the plain revision has
\* none) and calls createToken.
createToken(name, symbol) ==
  /\ Quiescent
  /\ revision = "plain" => (name = "" /\ symbol = "")
  /\ \/ /\ ~CreatePrecondition(name, symbol)
        /\ inv' = Rejected("create", "", <<>>,
                   IF revision = "plain" THEN "Wallet not connected"
                   ELSE "Wallet not connected or token name/symbol missing")
        /\ UNCHANGED << isLoading, started, generated >>
     \/ /\ CreatePrecondition(name, symbol)
        /\ started < MaxInvocations
        /\ isLoading' = TRUE
        /\ started' = started + 1
        /\ inv' = [ NewInvocation("create") EXCEPT
                      !.pc = "c_rent", !.id = started + 1,
                      !.mintKey = KeypairGenerate ]
        /\ generated' = Append(generated, KeypairGenerate)
  /\ UNCHANGED << revision, publicKey, tokenMint, tokenAccount, tokenBalance,
                  transactionHistory, reads, ledger, clock >>

\* await getMinimumBalanceForRentExemptMint(connection)
CreateGetRent ==
  /\ inv.pc = "c_rent"
  /\ \E ok \in BOOLEAN :
       IF ok THEN /\ inv' = [Called(1, 0) EXCEPT !.pc = "c_blockhash"]
                  /\ UNCHANGED << transactionHistory, isLoading >>
       ELSE CatchCreate(Called(1, 0))
  /\ UNCHANGED << revision, publicKey, tokenMint, tokenAccount, tokenBalance,
                  reads, ledger, started, clock, generated >>

\* await connection.getLatestBlockhash(); then the transaction is built
CreateGetBlockhash ==
  /\ inv.pc = "c_blockhash"
  /\ \E ok \in BOOLEAN :
       IF ok THEN /\ inv' = [Called(1, 0) EXCEPT
                               !.pc = "c_sign", !.built = @ + 1,
                               !.transaction =
                                  SetBlockhashAndFeePayer(
                                    NewTransaction(<<"createAccount", "initializeMint">>),
                                    inv.publicKey)]
                  /\ UNCHANGED << transactionHistory, isLoading >>
       ELSE CatchCreate(Called(1, 0))
  /\ UNCHANGED << revision, publicKey, tokenMint, tokenAccount, tokenBalance,
                  reads, ledger, started, clock, generated >>

\* await signTransaction(transaction); signed.partialSign(mintKeypair)
CreateSign ==
  /\ inv.pc = "c_sign"
  /\ \E ok \in BOOLEAN :
       IF ok /\ CanSign
       THEN /\ inv' = [Called(0, 1) EXCEPT !.pc = "c_send"]
            /\ UNCHANGED << transactionHistory, isLoading >>
       ELSE CatchCreate(Called(0, 1))
  /\ UNCHANGED << revision, publicKey, tokenMint, tokenAccount, tokenBalance,
                  reads, ledger, started, clock, generated >>

\* await connection.sendRawTransaction(...); then the pending record is appended
CreateSend ==
  /\ inv.pc = "c_send"
  /\ \E ok \in BOOLEAN :
       IF ok
       THEN /\ inv' = [Called(1, 0) EXCEPT !.pc = "c_confirm", !.signature = Signature(inv.id, 1)]
            /\ transactionHistory' =
                 Append(transactionHistory, CreationRecord(Signature(inv.id, 1), clock))
            /\ clock' = clock + 1
            /\ UNCHANGED isLoading
       ELSE /\ CatchCreate(Called(1, 0))
            /\ UNCHANGED clock
  /\ UNCHANGED << revision, publicKey, tokenMint, tokenAccount, tokenBalance,
                  reads, ledger, started, generated >>

\* await connection.confirmTransaction(signature, 'confirmed'); then the
\* associated address is derived
CreateConfirm ==
  /\ inv.pc = "c_confirm"
  /\ \E res \in ConfirmResults :
       IF res # "throws"
       THEN /\ inv' = [AfterConfirm(res) EXCEPT !.pc = "c_ataBlockhash"]
            /\ UNCHANGED << transactionHistory, isLoading >>
       ELSE CatchCreate(Called(1, 0))
  /\ UNCHANGED << revision, publicKey, tokenMint, tokenAccount, tokenBalance,
                  reads, ledger, started, clock, generated >>

\* await connection.getLatestBlockhash(); then ataTransaction is built
CreateAtaGetBlockhash ==
  /\ inv.pc = "c_ataBlockhash"
  /\ \E ok \in BOOLEAN :
       IF ok THEN /\ inv' = [Called(1, 0) EXCEPT
                               !.pc = "c_ataSign", !.built = @ + 1,
                               !.transaction =
                                  SetBlockhashAndFeePayer(
                                    NewTransaction(<<"createAssociatedTokenAccount">>),
                                    inv.publicKey)]
                  /\ UNCHANGED << transactionHistory, isLoading >>
       ELSE CatchCreate(Called(1, 0))
  /\ UNCHANGED << revision, publicKey, tokenMint, tokenAccount, tokenBalance,
                  reads, ledger, started, clock, generated >>

\* await signTransaction(ataTransaction)
CreateAtaSign ==
  /\ inv.pc = "c_ataSign"
  /\ \E ok \in BOOLEAN :
       IF ok /\ CanSign
       THEN /\ inv' = [Called(0, 1) EXCEPT !.pc = "c_ataSend"]
            /\ UNCHANGED << transactionHistory, isLoading >>
       ELSE CatchCreate(Called(0, 1))
  /\ UNCHANGED << revision, publicKey, tokenMint, tokenAccount, tokenBalance,
                  reads, ledger, started, clock, generated >>

\* A second submission that is logged like the first.
CreateAtaSendRecording ==
  /\ inv.pc = "c_ataSend"
  /\ inv' = [Called(1, 0) EXCEPT
               !.pc = "c_ataConfirm", !.ataSignature = Signature(inv.id, 2)]
  /\ transactionHistory' =
       Append(transactionHistory, CreationRecord(Signature(inv.id, 2), clock))
  /\ UNCHANGED << revision, publicKey, tokenMint, tokenAccount, tokenBalance,
                  isLoading, reads, ledger, started, clock, generated >>

\* const ataSignature = await connection.sendRawTransaction(signedAta.serialize()):
\* no record
CreateAtaSend ==
  /\ inv.pc = "c_ataSend"
  /\ \E ok \in BOOLEAN :
       IF ok THEN /\ inv' = [Called(1, 0) EXCEPT
                               !.pc = "c_ataConfirm",
                               !.ataSignature = Signature(inv.id, 2)]
                  /\ UNCHANGED << transactionHistory, isLoading >>
       ELSE CatchCreate(Called(1, 0))
  /\ UNCHANGED << revision, publicKey, tokenMint, tokenAccount, tokenBalance,
                  reads, ledger, started, clock, generated >>

\* A success path that forgets setTokenAccount(ata).
CommitTokenMintOnly(mint, ata) ==
  /\ tokenMint' = mint
  /\ UNCHANGED tokenAccount

\* What createToken stores on success: setTokenMint(mintKeypair.publicKey);
\* setTokenAccount(ata) -- one batched update.
CommitToken(mint, ata) ==
  /\ tokenMint' = mint
  /\ tokenAccount' = ata

\* The pair is committed and fetchTokenBalance of the closure (the render the
\* handler came from) is called: it returns at once when that render had no
\* token account, and the handler finishes; otherwise it reads that account.
CommitAndFetch(rec) ==
  LET ata == getAssociatedTokenAddress(rec.mintKey, rec.publicKey) IN
  /\ CommitToken(rec.mintKey, ata)
  /\ reads' = EffectReads(publicKey, ata)
  /\ IF rec.publicKey = NoWallet \/ rec.tokenAccount = NoAccount
     THEN FinishCreate(rec)
     ELSE /\ inv' = [rec EXCEPT !.pc = "c_fetch"]
          /\ UNCHANGED << transactionHistory, isLoading >>

\* A createToken that does not await the confirmation of the
\* associated-account transaction before it commits the pair.
CreateAtaConfirmUnawaited ==
  /\ inv.pc = "c_ataConfirm"
  /\ CommitAndFetch(inv)
  /\ UNCHANGED << revision, publicKey, tokenBalance, ledger, started, clock,
                  generated >>

\* await connection.confirmTransaction(ataSignature, 'confirmed'); the plain
\* revision then commits the pair, the metadata revision goes on to the metadata.
CreateAtaConfirm ==
  /\ inv.pc = "c_ataConfirm"
  \* the account can be created only for a mint that exists
  /\ \E res \in { r \in ConfirmResults : r = "confirmed" => inv.txErrors = 0 } :
       LET ata == getAssociatedTokenAddress(inv.mintKey, inv.publicKey)
           rec == AfterConfirm(res)
       IN
       IF res # "throws"
       THEN /\ ledger' = IF res = "confirmed" THEN (ata :> 0) @@ ledger ELSE ledger
            /\ IF revision = "plain"
               THEN CommitAndFetch(rec)
               ELSE /\ inv' = [rec EXCEPT !.pc = "c_metadata"]
                    /\ UNCHANGED << tokenMint, tokenAccount, reads,
                                    transactionHistory, isLoading >>
       ELSE /\ CatchCreate(Called(1, 0))
            /\ UNCHANGED << tokenMint, tokenAccount, reads, ledger >>
  /\ UNCHANGED << revision, publicKey, tokenBalance, started, clock, generated >>

\* await import('@metaplex-foundation/js'); Metaplex.make(connection);
\* await metaplex.nfts().createMetadata({...})
CreateMetadata ==
  /\ inv.pc = "c_metadata"
  /\ \E ok \in BOOLEAN :
       IF ok THEN /\ inv' = [Called(1, 0) EXCEPT
                               !.pc = "c_metaConfirm",
                               !.txSignature = Signature(inv.id, 3)]
                  /\ UNCHANGED << transactionHistory, isLoading >>
       ELSE CatchCreate(Called(1, 0))
  /\ UNCHANGED << revision, publicKey, tokenMint, tokenAccount, tokenBalance,
                  reads, ledger, started, clock, generated >>

\* await connection.confirmTransaction(txSignature, 'confirmed'); then the pair
\* is committed
CreateMetadataConfirm ==
  /\ inv.pc = "c_metaConfirm"
  /\ \E res \in ConfirmResults :
       IF res # "throws" THEN CommitAndFetch([Called(1, 0) EXCEPT
                                  !.txErrors = @ + (IF res = "err" THEN 1 ELSE 0)])
       ELSE /\ CatchCreate(Called(1, 0))
            /\ UNCHANGED << tokenMint, tokenAccount, reads >>
  /\ UNCHANGED << revision, publicKey, tokenBalance, ledger, started, clock, generated >>

\* getAccount(connection, tokenAccount) inside the awaited fetchTokenBalance
CreateFetchReturns ==
  /\ inv.pc = "c_fetch"
  /\ \E ok \in BOOLEAN :
       /\ tokenBalance' = BalanceRead(inv.tokenAccount, ok)
       /\ FinishCreate(Fetched(ok))
  /\ UNCHANGED << revision, publicKey, tokenMint, tokenAccount, reads, ledger,
                  started, clock, generated >>

\* ------------------------------------------------------------- mintTokens
MintPrecondition ==
  /\ publicKey # NoWallet /\ signTransaction(publicKey)
  /\ tokenMint # NoKey /\ tokenAccount # NoAccount

\* isNaN(amount) || amount <= 0
MintAmountInvalid(amount) == isNaN(amount) \/ LessEq(amount, 0)

\* A handler whose catch block is not followed by a finally block.
CatchMintNoFinally(rec) ==
  /\ transactionHistory' = MarkFailed(transactionHistory, "Token Mint")
  /\ UNCHANGED isLoading
  /\ inv' = [ Emit(rec, "error", "Failed to mint tokens") EXCEPT
                !.pc = "done", !.outcome = "failed", !.failedAt = rec.pc ]

\* A catch block that leaves the log alone.
CatchMintUnmarked(rec) ==
  /\ UNCHANGED transactionHistory
  /\ isLoading' = FALSE
  /\ inv' = [ Emit(rec, "error", "Failed to mint tokens") EXCEPT
                !.pc = "done", !.outcome = "failed", !.failedAt = rec.pc ]

CatchMint(rec) ==
  /\ transactionHistory' = MarkFailed(transactionHistory, "Token Mint")
  /\ isLoading' = FALSE
  /\ inv' = [ Emit(rec, "error", "Failed to mint tokens") EXCEPT
                !.pc = "done", !.outcome = "failed", !.failedAt = rec.pc ]

\* The cluster executes a mint-to only when signed by the mint authority, the
\* wallet the token was created by (the owner of its associated account).
MintExecutes ==
  /\ inv.tokenAccount \in DOMAIN ledger
  /\ inv.publicKey = inv.tokenAccount[2]

\* The user has typed s into the amount field and calls mintTokens.
mintTokens(s) ==
    LET amount == parseFloat(s) IN
    /\ Quiescent
    /\ \/ /\ ~MintPrecondition
          /\ inv' = Rejected("mint", "", s, "Missing required parameters")
          /\ UNCHANGED << isLoading, started >>
       \/ /\ MintPrecondition
          /\ MintAmountInvalid(amount)
          /\ inv' = Rejected("mint", "", s, "Please enter a valid amount greater than 0")
          /\ UNCHANGED << isLoading, started >>
       \/ /\ MintPrecondition
          /\ ~MintAmountInvalid(amount)
          /\ started < MaxInvocations
          /\ isLoading' = TRUE
          /\ started' = started + 1
          /\ inv' = [ NewInvocation("mint") EXCEPT
                        !.pc = "m_blockhash", !.id = started + 1, !.text = s, !.amount = amount.val,
                        !.built = 1, !.transaction = NewTransaction(<<"mintTo">>) ]
    /\ UNCHANGED << revision, publicKey, tokenMint, tokenAccount, tokenBalance,
                    transactionHistory, reads, ledger, clock, generated >>

MintGetBlockhash ==
  /\ inv.pc = "m_blockhash"
  /\ \E ok \in BOOLEAN :
       IF ok THEN /\ inv' = [Called(1, 0) EXCEPT
                               !.pc = "m_sign",
                               !.transaction =
                                  SetBlockhashAndFeePayer(inv.transaction, inv.publicKey)]
                  /\ UNCHANGED << transactionHistory, isLoading >>
       ELSE CatchMint(Called(1, 0))
  /\ UNCHANGED << revision, publicKey, tokenMint, tokenAccount, tokenBalance,
                  reads, ledger, started, clock, generated >>

MintSign ==
  /\ inv.pc = "m_sign"
  /\ \E ok \in BOOLEAN :
       IF ok /\ CanSign
       THEN /\ inv' = [Called(0, 1) EXCEPT !.pc = "m_send"]
            /\ UNCHANGED << transactionHistory, isLoading >>
       ELSE CatchMint(Called(0, 1))
  /\ UNCHANGED << revision, publicKey, tokenMint, tokenAccount, tokenBalance,
                  reads, ledger, started, clock, generated >>

MintSend ==
  /\ inv.pc = "m_send"
  /\ \E ok \in BOOLEAN :
       IF ok
       THEN /\ inv' = [Called(1, 0) EXCEPT !.pc = "m_confirm", !.signature = Signature(inv.id, 1)]
            /\ transactionHistory' =
                 Append(transactionHistory, MintRecord(Signature(inv.id, 1), clock, inv.amount))
            /\ clock' = clock + 1
            /\ UNCHANGED isLoading
       ELSE /\ CatchMint(Called(1, 0))
            /\ UNCHANGED clock
  /\ UNCHANGED << revision, publicKey, tokenMint, tokenAccount, tokenBalance,
                  reads, ledger, started, generated >>

\* await connection.confirmTransaction(signature, 'confirmed'); then
\* fetchTokenBalance of the closure is called (its token account is set)
MintConfirm ==
  /\ inv.pc = "m_confirm"
  /\ \E res \in { r \in ConfirmResults : r = "confirmed" => MintExecutes } :
       IF res # "throws"
       THEN /\ ledger' = IF res = "confirmed"
                         THEN [ledger EXCEPT ![inv.tokenAccount] = @ + inv.amount]
                         ELSE ledger
            /\ inv' = [AfterConfirm(res) EXCEPT !.pc = "m_fetch"]
            /\ UNCHANGED << transactionHistory, isLoading >>
       ELSE /\ CatchMint(Called(1, 0))
            /\ UNCHANGED ledger
  /\ UNCHANGED << revision, publicKey, tokenMint, tokenAccount, tokenBalance,
                  reads, started, clock, generated >>

MintFetchReturns ==
  /\ inv.pc = "m_fetch"
  /\ \E ok \in BOOLEAN :
       /\ tokenBalance' = BalanceRead(inv.tokenAccount, ok)
       /\ inv' = [ Emit(Fetched(ok), "success", "Successfully minted tokens!") EXCEPT
                     !.pc = "done", !.outcome = "success" ]
  /\ transactionHistory' = MarkConfirmed(transactionHistory, inv.signature)
  /\ isLoading' = FALSE
  /\ UNCHANGED << revision, publicKey, tokenMint, tokenAccount, reads, ledger,
                  started, clock, generated >>

\* --------------------------------------------------------- transferTokens
\* The first check of transferTokens: every operand of the || chain is truthy
\* (an empty string is falsy).
TransferPrecondition(r, s) ==
  /\ publicKey # NoWallet /\ signTransaction(publicKey)
  /\ tokenMint # NoKey /\ tokenAccount # NoAccount
  /\ r # "" /\ s # <<>>

\* The toast of a rejected amount: the plain revision tells NaN from <= 0,
\* the metadata revision has one message for both.
TransferAmountToast(nan) ==
  IF revision = "metadata" THEN "Please enter a valid amount greater than 0"
  ELSE IF nan THEN "Please enter a valid amount"
  ELSE "Amount must be greater than 0"

\* A catch block without its toast.
CatchTransferSilent(rec) ==
  /\ transactionHistory' = MarkFailed(transactionHistory, "Token Transfer")
  /\ isLoading' = FALSE
  /\ inv' = [ rec EXCEPT !.pc = "done", !.outcome = "failed", !.failedAt = rec.pc ]

CatchTransfer(rec) ==
  /\ transactionHistory' = MarkFailed(transactionHistory, "Token Transfer")
  /\ isLoading' = FALSE
  /\ inv' = [ Emit(rec, "error", "Transfer failed") EXCEPT
                !.pc = "done", !.outcome = "failed", !.failedAt = rec.pc ]

RecipientAccount == getAssociatedTokenAddress(inv.tokenMint, inv.recipient)

\* The cluster executes the transfer only when the owner of the source account
\* signed, the source holds the quantity, and the destination exists exactly
\* when the transaction does not create it.
TransferExecutes ==
  /\ inv.tokenAccount \in DOMAIN ledger
  /\ inv.publicKey = inv.tokenAccount[2]
  /\ ledger[inv.tokenAccount] >= inv.amount
  /\ inv.withCreate <=> (RecipientAccount \notin DOMAIN ledger)

\* The user has typed r and s into the two fields and calls transferTokens.
transferTokens(r, s) ==
    LET amount == parseFloat(s) IN
    /\ Quiescent
    /\ \/ /\ ~TransferPrecondition(r, s)
          /\ inv' = Rejected("transfer", r, s, "Please connect wallet and fill all fields")
          /\ UNCHANGED << isLoading, started, transactionHistory >>
       \/ /\ TransferPrecondition(r, s)
          /\ isNaN(amount)
          /\ inv' = Rejected("transfer", r, s, TransferAmountToast(TRUE))
          /\ UNCHANGED << isLoading, started, transactionHistory >>
       \/ /\ TransferPrecondition(r, s)
          /\ ~isNaN(amount)
          /\ LessEq(amount, 0)
          /\ inv' = Rejected("transfer", r, s, TransferAmountToast(FALSE))
          /\ UNCHANGED << isLoading, started, transactionHistory >>
       \/ /\ TransferPrecondition(r, s)
          /\ ~isNaN(amount)
          /\ ~LessEq(amount, 0)
          /\ Greater(amount, tokenBalance)
          /\ inv' = Rejected("transfer", r, s, "Insufficient balance")
          /\ UNCHANGED << isLoading, started, transactionHistory >>
       \/ /\ TransferPrecondition(r, s)
          /\ ~isNaN(amount)
          /\ ~LessEq(amount, 0)
          /\ ~Greater(amount, tokenBalance)
          /\ LET rec == [ NewInvocation("transfer") EXCEPT
                            !.text = s, !.amount = amount.val, !.recipient = r ]
             IN IF IsPublicKey(r)
                THEN \* the recipient's associated address is derived and an
                     \* empty Transaction is created
                     /\ started < MaxInvocations
                     /\ started' = started + 1
                     /\ isLoading' = TRUE
                     /\ inv' = [rec EXCEPT
                                  !.pc = "t_probe", !.id = started + 1, !.built = 1,
                                  !.transaction = NewTransaction(<<>>)]
                     /\ UNCHANGED transactionHistory
                ELSE \* new PublicKey(recipientAddress) throws before the
                     \* first await: catch and finally run at once
                     /\ CatchTransfer([rec EXCEPT !.pc = "t_publicKey"])
                     /\ UNCHANGED started
    /\ UNCHANGED << revision, publicKey, tokenMint, tokenAccount, tokenBalance,
                    reads, ledger, clock, generated >>

\* A probe whose catch block adds nothing.
ProbeInstructionsTransferOnly(found) == <<"transfer">>

\* What the probe's outcome adds to the transaction: the catch block adds the
\* create instruction, then the transfer instruction is added in any case.
ProbeInstructions(found) ==
  IF found THEN <<"transfer">>
  ELSE <<"createAssociatedTokenAccount", "transfer">>

\* try { await getAccount(connection, recipientTokenAccount) } catch { add the
\* create-associated-account instruction }; then the transfer instruction is added
TransferProbe ==
  /\ inv.pc = "t_probe"
  /\ \E found \in BOOLEAN :
       /\ found => RecipientAccount \in DOMAIN ledger
       /\ inv' = [Called(1, 0) EXCEPT
                    !.pc = "t_blockhash", !.withCreate = ~found, !.probed = found,
                    !.transaction.instructions = @ \o ProbeInstructions(found)]
  /\ UNCHANGED << revision, publicKey, tokenMint, tokenAccount, tokenBalance,
                  isLoading, transactionHistory, reads, ledger, started,
                  clock, generated >>

TransferGetBlockhash ==
  /\ inv.pc = "t_blockhash"
  /\ \E ok \in BOOLEAN :
       IF ok THEN /\ inv' = [Called(1, 0) EXCEPT
                               !.pc = "t_sign",
                               !.transaction =
                                  SetBlockhashAndFeePayer(inv.transaction, inv.publicKey)]
                  /\ UNCHANGED << transactionHistory, isLoading >>
       ELSE CatchTransfer(Called(1, 0))
  /\ UNCHANGED << revision, publicKey, tokenMint, tokenAccount, tokenBalance,
                  reads, ledger, started, clock, generated >>

TransferSign ==
  /\ inv.pc = "t_sign"
  /\ \E ok \in BOOLEAN :
       IF ok /\ CanSign
       THEN /\ inv' = [Called(0, 1) EXCEPT !.pc = "t_send"]
            /\ UNCHANGED << transactionHistory, isLoading >>
       ELSE CatchTransfer(Called(0, 1))
  /\ UNCHANGED << revision, publicKey, tokenMint, tokenAccount, tokenBalance,
                  reads, ledger, started, clock, generated >>

TransferSend ==
  /\ inv.pc = "t_send"
  /\ \E ok \in BOOLEAN :
       IF ok
       THEN /\ inv' = [Called(1, 0) EXCEPT !.pc = "t_confirm", !.signature = Signature(inv.id, 1)]
            /\ transactionHistory' =
                 Append(transactionHistory,
                        TransferRecord(Signature(inv.id, 1), clock, inv.amount, inv.recipient))
            /\ clock' = clock + 1
            /\ UNCHANGED isLoading
       ELSE /\ CatchTransfer(Called(1, 0))
            /\ UNCHANGED clock
  /\ UNCHANGED << revision, publicKey, tokenMint, tokenAccount, tokenBalance,
                  reads, ledger, started, generated >>

TransferConfirm ==
  /\ inv.pc = "t_confirm"
  /\ \E res \in { r \in ConfirmResults : r = "confirmed" => TransferExecutes } :
       IF res # "throws"
       THEN /\ ledger' =
                 IF res = "confirmed"
                 THEN LET debited == [ledger EXCEPT ![inv.tokenAccount] = @ - inv.amount]
                          held == IF RecipientAccount \in DOMAIN ledger
                                  THEN ledger[RecipientAccount] ELSE 0
                      IN (RecipientAccount :> held + inv.amount) @@ debited
                 ELSE ledger
            /\ inv' = [AfterConfirm(res) EXCEPT !.pc = "t_fetch"]
            /\ UNCHANGED << transactionHistory, isLoading >>
       ELSE /\ CatchTransfer(Called(1, 0))
            /\ UNCHANGED ledger
  /\ UNCHANGED << revision, publicKey, tokenMint, tokenAccount, tokenBalance,
                  reads, started, clock, generated >>

TransferFetchReturns ==
  /\ inv.pc = "t_fetch"
  /\ \E ok \in BOOLEAN :
       /\ tokenBalance' = BalanceRead(inv.tokenAccount, ok)
       /\ inv' = [ Emit(Fetched(ok), "success", "Transferred tokens successfully!") EXCEPT
                     !.pc = "done", !.outcome = "success" ]
  /\ transactionHistory' = MarkConfirmed(transactionHistory, inv.signature)
  /\ isLoading' = FALSE
  /\ UNCHANGED << revision, publicKey, tokenMint, tokenAccount, reads, ledger,
                  started, clock, generated >>

\* ---------------------------------------------------------- specification
\* The handlers are called directly, with any contents of the fields, until
\* MaxInvocations calls have passed their checks.
Callable == started < MaxInvocations

Next ==
  \/ Connect
  \/ Disconnect
  \/ EffectReadReturns
  \/ Callable /\ \E name \in NameInputs, symbol \in NameInputs : createToken(name, symbol)
  \/ CreateGetRent
  \/ CreateGetBlockhash
  \/ CreateSign
  \/ CreateSend
  \/ CreateConfirm
  \/ CreateAtaGetBlockhash
  \/ CreateAtaSign
  \/ CreateAtaSend
  \/ CreateAtaConfirm
  \/ CreateMetadata
  \/ CreateMetadataConfirm
  \/ CreateFetchReturns
  \/ Callable /\ \E s \in AmountInputs : mintTokens(s)
  \/ MintGetBlockhash
  \/ MintSign
  \/ MintSend
  \/ MintConfirm
  \/ MintFetchReturns
  \/ Callable /\ \E r \in RecipientInputs, s \in AmountInputs : transferTokens(r, s)
  \/ TransferProbe
  \/ TransferGetBlockhash
  \/ TransferSign
  \/ TransferSend
  \/ TransferConfirm
  \/ TransferFetchReturns
  \/ Return

Spec == Init /\ [][Next]_vars

\* ------------------------------------------ the handlers behind the buttons
\* What an <input type="number"> hands to onChange: a number, or "".
NumberInputs == { s \in AmountInputs : s = <<>> \/ IsNumeric(s) }

\* A create button without its disabled attribute.
CreateButtonNeverDisabled == publicKey # NoWallet

\* The buttons are rendered while a wallet is connected (mint and transfer only
\* once a token exists) and are disabled while isLoading or a field is empty.
CreateButtonEnabled == publicKey # NoWallet /\ ~isLoading
MintButtonEnabled(s) ==
  publicKey # NoWallet /\ tokenMint # NoKey /\ ~(isLoading \/ s = <<>>)
TransferButtonEnabled(r, s) ==
  publicKey # NoWallet /\ tokenMint # NoKey /\ ~(isLoading \/ s = <<>> \/ r = "")

ClickCreate == CreateButtonEnabled /\ createToken("", "")
ClickMint == \E s \in NumberInputs : MintButtonEnabled(s) /\ mintTokens(s)
ClickTransfer ==
  \E r \in RecipientInputs, s \in NumberInputs :
    TransferButtonEnabled(r, s) /\ transferTokens(r, s)

InitUI == Init /\ revision = "plain"

NextUI ==
  \/ Connect
  \/ Disconnect
  \/ EffectReadReturns
  \/ ClickCreate
  \/ CreateGetRent
  \/ CreateGetBlockhash
  \/ CreateSign
  \/ CreateSend
  \/ CreateConfirm
  \/ CreateAtaGetBlockhash
  \/ CreateAtaSign
  \/ CreateAtaSend
  \/ CreateAtaConfirm
  \/ CreateFetchReturns
  \/ ClickMint
  \/ MintGetBlockhash
  \/ MintSign
  \/ MintSend
  \/ MintConfirm
  \/ MintFetchReturns
  \/ ClickTransfer
  \/ TransferProbe
  \/ TransferGetBlockhash
  \/ TransferSign
  \/ TransferSend
  \/ TransferConfirm
  \/ TransferFetchReturns
  \/ Return

\* The component driven through its rendered buttons only (plain revision).
SpecUI == InitUI /\ [][NextUI]_vars

\* The steps that resume a handler when the collaborator call it awaits has
\* returned or failed, and the settling of the handler's promise.
AwaitedSteps ==
  \/ CreateGetRent \/ CreateGetBlockhash \/ CreateSign \/ CreateSend
  \/ CreateConfirm \/ CreateAtaGetBlockhash \/ CreateAtaSign \/ CreateAtaSend
  \/ CreateAtaConfirm \/ CreateFetchReturns
  \/ MintGetBlockhash \/ MintSign \/ MintSend \/ MintConfirm \/ MintFetchReturns
  \/ TransferProbe \/ TransferGetBlockhash \/ TransferSign \/ TransferSend
  \/ TransferConfirm \/ TransferFetchReturns
  \/ Return

\* The component behind its buttons when every collaborator call eventually
\* returns or fails: the event loop then resumes the handler that awaits it.
SpecLive == InitUI /\ [][NextUI]_vars /\ WF_vars(AwaitedSteps)

\* The component behind its buttons in a session where the user switches
\* between two wallets that can sign.
NextWallets == NextUI \/ ConnectSecond

SpecWallets == InitUI /\ [][NextWallets]_vars

\* ------------------------------------------------------------ properties
\* The invocation whose steps are being taken has touched nothing yet but toasts.
NothingDone(rec) ==
  /\ rec.netCalls = 0
  /\ rec.signCalls = 0
  /\ rec.built = 0
  /\ transactionHistory = rec.pre.history

RejectedWith(rec, text) ==
  /\ rec.pc = "done"
  /\ rec.outcome = "rejected"
  /\ rec.toasts = << Toast("error", text) >>

\* C1: a record is created pending; its status changes at most once, to
\* confirmed or to failed, and never changes after it is confirmed or failed.
C1_StatusSettlesOnce ==
  [][ /\ \A i \in DOMAIN transactionHistory' \ DOMAIN transactionHistory :
           transactionHistory'[i].status = "pending"
      /\ \A i \in DOMAIN transactionHistory \cap DOMAIN transactionHistory' :
           transactionHistory[i].status # "pending"
             => transactionHistory'[i].status = transactionHistory[i].status
    ]_vars

\* C2: a step of a mint or transfer invocation changes no record of the log
\* except the record carrying the signature that invocation submitted, and of
\* that record only the status.
C2_FailureTouchesOwnRecordOnly ==
  [][ inv'.op \in {"mint", "transfer"} =>
        \A i \in DOMAIN transactionHistory \cap DOMAIN transactionHistory' :
          transactionHistory'[i] # transactionHistory[i]
            => /\ transactionHistory[i].signature = inv'.signature
               /\ [transactionHistory'[i] EXCEPT !.status = transactionHistory[i].status]
                    = transactionHistory[i]
    ]_vars

\* C3: the log is append-only: no step removes or reorders a record, and no
\* field of a record other than its status ever changes.
C3_AppendOnly ==
  [][ /\ Len(transactionHistory') >= Len(transactionHistory)
      /\ \A i \in DOMAIN transactionHistory :
           [transactionHistory'[i] EXCEPT !.status = transactionHistory[i].status]
             = transactionHistory[i]
    ]_vars

\* A log of three records of which one was rewritten to failed and one to confirmed.
C3_Witness ==
  /\ Len(transactionHistory) >= 3
  /\ \E i, j \in DOMAIN transactionHistory :
       /\ transactionHistory[i].status = "failed"
       /\ transactionHistory[j].status = "confirmed"

\* C4: an operation invoked without a connected wallet able to sign returns
\* after exactly one error toast, with no network call, no signing request, no
\* transaction built and no record added or changed.
C4_DisconnectedRejected ==
  (inv.op # "none" /\ (inv.publicKey = NoWallet \/ ~signTransaction(inv.publicKey)))
    => /\ inv.pc = "done"
       /\ inv.outcome = "rejected"
       /\ Len(inv.toasts) = 1
       /\ inv.toasts[1].level = "error"
       /\ NothingDone(inv)

\* mintTokens called, with a token in place, under a wallet that cannot sign.
C4_Witness ==
  /\ inv.op = "mint"
  /\ inv.pc = "done"
  /\ inv.publicKey = "V"
  /\ inv.pre.tokenMint # NoKey
  /\ inv.outcome = "rejected"

C6_InvalidRecipientNoSideEffect ==
  ( /\ inv.op = "transfer"
    /\ inv.pc = "done"
    /\ inv.outcome # "rejected"
    /\ ~IsPublicKey(inv.recipient) )
    => /\ inv.outcome = "failed"
       /\ inv.netCalls = 0
       /\ inv.signCalls = 0
       /\ transactionHistory = inv.pre.history
       /\ tokenMint = inv.pre.tokenMint
       /\ tokenAccount = inv.pre.tokenAccount

CreationsAddedBy(rec) ==
  { i \in DOMAIN transactionHistory \ DOMAIN rec.pre.history :
      transactionHistory[i].type = "Token Creation" }

\* C7: when both sub-steps of createToken were confirmed, the invocation ends
\* with tokenMint and tokenAccount set and with exactly one Creation record
\* added, whose status is confirmed.
C7_CreateSucceedsAfterBothConfirmed ==
  (inv.op = "create" /\ inv.pc = "done" /\ inv.confirmations >= 2)
    => /\ tokenMint # NoKey
       /\ tokenAccount # NoAccount
       /\ Cardinality(CreationsAddedBy(inv)) = 1
       /\ \A i \in CreationsAddedBy(inv) : transactionHistory[i].status = "confirmed"

\* The steps of createToken's second sub-step (the associated account).
SecondSubStep == {"c_ataBlockhash", "c_ataSign", "c_ataSend", "c_ataConfirm"}

C9_AccountIffMint == (tokenAccount # NoAccount) <=> (tokenMint # NoKey)

\* A second token has replaced the first: both fields are set.
C9_Witness ==
  /\ tokenMint = 2
  /\ tokenAccount = getAssociatedTokenAddress(2, "W1")

CompletesRead(acct) ==
  \/ acct \in reads /\ acct \notin reads'
  \/ /\ inv.pc \in {"c_fetch", "m_fetch", "t_fetch"}
     /\ inv'.pc = "done"
     /\ acct = inv.tokenAccount

\* C11: every value tokenBalance takes is the value the cluster returns for a
\* read of the associated account that completes at that step; it is never
\* another value.
C11_BalanceVerbatimFromRead ==
  [][ tokenBalance' # tokenBalance =>
        \E acct \in reads \cup {inv.tokenAccount} :
          /\ CompletesRead(acct)
          /\ acct = tokenAccount'
          /\ acct \in DOMAIN ledger
          /\ tokenBalance' = ledger[acct]
    ]_vars

\* C12: a balance read that fails leaves tokenBalance as it was: when a read of
\* an account completes, tokenBalance is afterwards the value the cluster holds
\* for that account (the read succeeded) or the value it had before.
C12_FailedRefreshKeepsBalance ==
  [][ \A acct \in reads \cup {inv.tokenAccount} :
        CompletesRead(acct) =>
          \/ tokenBalance' = tokenBalance
          \/ acct \in DOMAIN ledger /\ tokenBalance' = ledger[acct]
    ]_vars

\* C13: every createToken that passes its first check works with a mint key
\* that no earlier invocation generated, whether that one failed or not, and
\* the token in place is one of the keys generated.
C13_FreshMintIdentity ==
  /\ \A i, j \in DOMAIN generated : i # j => generated[i] # generated[j]
  /\ (inv.op = "create" /\ inv.outcome # "rejected")
       => /\ generated # <<>>
          /\ inv.mintKey = generated[Len(generated)]
  /\ tokenMint # NoKey => \E i \in DOMAIN generated : generated[i] = tokenMint

\* createToken is under way again after an attempt whose record is failed and
\* which left no token.
C13_Witness ==
  /\ inv.op = "create"
  /\ inv.pc = "c_rent"
  /\ Len(generated) >= 2
  /\ tokenMint = NoKey
  /\ \E i \in DOMAIN transactionHistory :
       /\ transactionHistory[i].type = "Token Creation"
       /\ transactionHistory[i].status = "failed"

\* Positions of the records the invocation rec has appended.
RecordsAddedBy(rec) == DOMAIN transactionHistory \ DOMAIN rec.pre.history

\* The one record the invocation rec appended is a transfer with status st.
OneTransferRecord(rec, st) ==
  /\ Cardinality(RecordsAddedBy(rec)) = 1
  /\ \A i \in RecordsAddedBy(rec) :
       /\ transactionHistory[i].type = "Token Transfer"
       /\ transactionHistory[i].signature = rec.signature
       /\ transactionHistory[i].status = st

\* C14: once the probe of transferTokens has returned, the transaction holds
\* the create-associated-account instruction, before the transfer instruction,
\* exactly when the probe found no account; a probe failure never ends the
\* invocation; between submission and the end of the balance read the
\* invocation's one Transfer record is pending, and after a success (the
\* confirmation and the balance read both returned) it is confirmed.
C14_TransferSelfHealing ==
  inv.op = "transfer" =>
    /\ inv.failedAt # "t_probe"
    /\ inv.netCalls >= 1
         => inv.transaction.instructions =
              IF inv.probed THEN <<"transfer">>
              ELSE <<"createAssociatedTokenAccount", "transfer">>
    /\ inv.pc \in {"t_confirm", "t_fetch"} => OneTransferRecord(inv, "pending")
    /\ (inv.pc = "done" /\ inv.outcome = "success")
         => /\ OneTransferRecord(inv, "confirmed")
            /\ inv.netCalls = 5
            /\ inv.signCalls = 1

\* A transfer to a recipient without an associated account has succeeded.
C14_Witness ==
  /\ inv.op = "transfer"
  /\ inv.pc = "done"
  /\ inv.outcome = "success"
  /\ ~inv.probed
  /\ inv.confirmations = 1
  /\ inv.transaction.instructions = <<"createAssociatedTokenAccount", "transfer">>
  /\ RecipientAccount \in DOMAIN ledger

\* The steps at which a handler calls signTransaction.
SignSteps == {"c_sign", "c_ataSign", "m_sign", "t_sign"}

\* C15: whenever a handler is about to hand a transaction to the wallet, or
\* has handed it over, the transaction has instructions, a recent blockhash,
\* and the user's address as fee payer.
C15_SignedTransactionsComplete ==
  (inv.pc \in SignSteps \/ inv.signCalls >= 1)
    => /\ inv.transaction.instructions # <<>>
       /\ inv.transaction.recentBlockhash
       /\ inv.publicKey # NoWallet
       /\ inv.transaction.feePayer = inv.publicKey

\* The associated-account transaction of createToken is about to be signed.
C15_Witness ==
  /\ inv.pc = "c_ataSign"
  /\ inv.signCalls = 1
  /\ inv.transaction.instructions = <<"createAssociatedTokenAccount">>
  /\ inv.transaction.feePayer = "W1"

C17_CreationConfirmedAtFirstConfirmation ==
  (inv.op = "create" /\ inv.confirmations >= 1 /\ inv.pc \in SecondSubStep)
    => \A i \in RecordsAddedBy(inv) : transactionHistory[i].status = "confirmed"

\* C18: when the confirmation of createToken's first transaction throws, or
\* returns a result that carries a transaction error, the invocation ends
\* failed with its Creation record failed, no associated-account transaction is
\* built, signed or submitted, and tokenMint and tokenAccount are unchanged.
C18_FirstConfirmationFailureAborts ==
  ( /\ inv.op = "create"
    /\ \/ inv.failedAt = "c_confirm"
       \/ inv.confirmations = 0 /\ inv.txErrors >= 1 )
    => /\ inv.pc = "done"
       /\ inv.outcome = "failed"
       /\ \A i \in RecordsAddedBy(inv) : transactionHistory[i].status = "failed"
       /\ inv.built = 1
       /\ inv.signCalls = 1
       /\ tokenMint = inv.pre.tokenMint
       /\ tokenAccount = inv.pre.tokenAccount

\* A call awaited by the invocation rec has thrown: a call that reached the
\* handler's catch block, the probe of the recipient's account, or the account
\* read of the awaited fetchTokenBalance.
CallFailed(rec) ==
  \/ rec.failedAt # ""
  \/ rec.op = "transfer" /\ rec.netCalls >= 1 /\ ~rec.probed
  \/ rec.readFailed

\* How an invocation that entered its catch block ends.
EndsFailed(rec) ==
  /\ rec.pc = "done"
  /\ rec.outcome = "failed"
  /\ ~isLoading
  /\ Len(rec.toasts) = 1
  /\ rec.toasts[1].level = "error"
  /\ \A i \in RecordsAddedBy(rec) : transactionHistory[i].status = "failed"

AbsorbedReadSteps == {"t_probe", "c_fetch", "m_fetch", "t_fetch"}

C20_OneMessagePerOutcome ==
  /\ inv.pc # "done" => inv.toasts = <<>>
  /\ inv.pc = "done"
       => /\ Len(inv.toasts) = 1
          /\ inv.outcome \in {"success", "rejected", "failed"}
          /\ inv.toasts[1].level =
               IF inv.outcome = "success" THEN "success" ELSE "error"

\* A transfer that failed after its record was appended has ended.
C20_Witness ==
  /\ inv.op = "transfer"
  /\ inv.pc = "done"
  /\ inv.outcome = "failed"
  /\ inv.failedAt = "t_confirm"
  /\ inv.toasts = << Toast("error", "Transfer failed") >>

\* A handler is between its first await and its end.
InFlight == inv.pc \notin {"idle", "done"}

\* Some record of the log is pending.
HasPending ==
  \E i \in DOMAIN transactionHistory : transactionHistory[i].status = "pending"

\* C21: when every collaborator call eventually returns or fails, an
\* invocation under way eventually ends and a pending record eventually
\* becomes confirmed or failed (records are never removed), whatever the user
\* does meanwhile (connect, disconnect, click): from any state with an
\* invocation under way or a pending record, a state is reached with the
\* invocation ended and no record pending.
C21_PendingRecordsSettle ==
  (InFlight \/ HasPending) ~> (~InFlight /\ ~HasPending)

\* The wallet was disconnected while a submitted mint awaits its confirmation.
C21_Witness ==
  /\ inv.pc = "m_confirm"
  /\ publicKey = NoWallet
  /\ HasPending

\* C22: while an invocation of createToken, mintTokens or transferTokens is
\* between its start and its end, isLoading is set and none of the three
\* buttons accepts a click, whatever the fields hold: no second invocation
\* can begin.
C22_OneOperationInFlight ==
  InFlight =>
    /\ isLoading
    /\ ~CreateButtonEnabled
    /\ \A s \in AmountInputs : ~MintButtonEnabled(s)
    /\ \A r \in RecipientInputs, s \in AmountInputs : ~TransferButtonEnabled(r, s)

\* A transfer awaits its confirmation with the wallet connected and a token in
\* place: all three buttons are rendered.
C22_Witness ==
  /\ inv.op = "transfer"
  /\ inv.pc = "t_confirm"
  /\ publicKey # NoWallet
  /\ tokenMint # NoKey
  /\ isLoading

\* The awaited fetchTokenBalance of a mint or transfer is reading the account
\* in place, and the record of the invocation is still pending.
ReadBeforeConfirmed ==
  inv.pc \in {"m_fetch", "t_fetch"} =>
    /\ inv.tokenAccount = tokenAccount
    /\ \A i \in RecordsAddedBy(inv) : transactionHistory[i].status = "pending"

\* A step of a mint or transfer that marks a record confirmed is the step at
\* which its awaited balance read returns.
ConfirmedAfterRead ==
  \A i \in DOMAIN transactionHistory :
    ( /\ inv'.op \in {"mint", "transfer"}
      /\ transactionHistory[i].status = "pending"
      /\ transactionHistory'[i].status = "confirmed" )
      => inv.pc \in {"m_fetch", "t_fetch"}

BeforeSubmission ==
  { "c_rent", "c_blockhash", "c_sign", "c_send", "m_blockhash", "m_sign",
    "m_send", "t_publicKey", "t_probe", "t_blockhash", "t_sign", "t_send" }

\* C24: every record of the log carries a signature; an invocation has added
\* nothing to the log while it holds no signature, in particular when it failed
\* at a step up to the submission; and when the submission has returned, the
\* record it added carries the returned signature and is pending.
C24_RecordOnlyAfterSubmission ==
  /\ \A i \in DOMAIN transactionHistory :
       transactionHistory[i].signature # NoSignature
  /\ inv.op # "none" =>
       /\ (inv.signature = NoSignature \/ inv.pc \in BeforeSubmission
             \/ inv.failedAt \in BeforeSubmission)
            => RecordsAddedBy(inv) = {}
       /\ inv.pc \in {"c_confirm", "m_confirm", "t_confirm"}
            => /\ Cardinality(RecordsAddedBy(inv)) = 1
               /\ \A i \in RecordsAddedBy(inv) :
                    /\ transactionHistory[i].signature = inv.signature
                    /\ transactionHistory[i].status = "pending"

\* The submission of a mint failed after the signing: the log holds only the
\* earlier record.
C24_Witness ==
  /\ inv.op = "mint"
  /\ inv.pc = "done"
  /\ inv.failedAt = "m_send"
  /\ inv.signCalls = 1
  /\ transactionHistory # <<>>
  /\ transactionHistory = inv.pre.history

\* The signatures of the records of the log.
LoggedSignatures ==
  { transactionHistory[i].signature : i \in DOMAIN transactionHistory }

\* C25: an invocation has added at most one record; the log holds one record
\* per signature, each the signature of the first submission of an invocation
\* that passed its checks (of the invocation under way only once it holds that
\* signature), so the log is never longer than the number of invocations that
\* reached submission; the signatures of createToken's associated-account and
\* metadata transactions are not in the log.
C25_OneRecordPerInvocation ==
  /\ inv.op # "none" => Cardinality(RecordsAddedBy(inv)) <= 1
  /\ Cardinality(LoggedSignatures) = Len(transactionHistory)
  /\ Len(transactionHistory) <= started
  /\ \A sig \in LoggedSignatures :
       /\ sig[1] \in 1..started
       /\ sig[2] = 1
       /\ sig[1] = inv.id => sig = inv.signature
  /\ inv.ataSignature \notin LoggedSignatures
  /\ inv.txSignature \notin LoggedSignatures

\* createToken with metadata has submitted its three transactions and ended:
\* it added one record.
C25_Witness ==
  /\ inv.op = "create"
  /\ inv.pc = "done"
  /\ inv.outcome = "success"
  /\ inv.ataSignature # NoSignature
  /\ inv.txSignature # NoSignature
  /\ Cardinality(RecordsAddedBy(inv)) = 1
  /\ Len(transactionHistory) = 2

C27_BalanceOfNewAccount ==
  ( /\ inv.op = "create"
    /\ inv.pc = "done"
    /\ inv.outcome = "success"
    /\ inv.pre.tokenAccount # NoAccount
    /\ reads = {}
    /\ publicKey # NoWallet
    /\ tokenAccount \in DOMAIN ledger )
    => tokenBalance = ledger[tokenAccount]

\* C28: isLoading is set exactly while an invocation that passed its checks is
\* between its start and its end; an invocation that a check rejected has left
\* it as it was, and an invocation that has ended, in success or in failure,
\* has reset it.
C28_LoadingWhileInFlight ==
  /\ isLoading <=> InFlight
  /\ inv.outcome = "rejected" => isLoading = inv.pre.isLoading
  /\ inv.pc = "done" => ~isLoading
  /\ InFlight => (inv.netCalls = 0 /\ inv.signCalls = 0 => ~inv.pre.isLoading)

\* A transfer that passed its checks awaits its first call.
C28_Witness ==
  /\ inv.op = "transfer"
  /\ inv.pc = "t_probe"
  /\ inv.netCalls = 0
  /\ isLoading
  /\ ~inv.pre.isLoading

\* The invocation rec has handed a signed transaction to sendRawTransaction.
Submits(rec) ==
  rec.signature # NoSignature \/ rec.failedAt \in {"m_send", "t_send"}

\* C29: mintTokens and transferTokens submit only against a token created
\* under the wallet that is connected: the token account an invocation that
\* submits works on is the associated account of its mint and its own wallet.
C29_TokenOfConnectedWallet ==
  (inv.op \in {"mint", "transfer"} /\ Submits(inv))
    => inv.tokenAccount = getAssociatedTokenAddress(inv.tokenMint, inv.publicKey)

\* The fields every record has.
CommonFields == {"type", "signature", "timestamp", "status"}

\* C30: in every state a Transfer record has an amount and a recipient, a Mint
\* record an amount and no recipient, a Creation record neither; every amount
\* recorded is above 0 and every recipient recorded is an address.
C30_FieldsFollowKind ==
  \A i \in DOMAIN transactionHistory :
    LET tx == transactionHistory[i] IN
    /\ tx.type \in {"Token Creation", "Token Mint", "Token Transfer"}
    /\ tx.type = "Token Creation" => DOMAIN tx = CommonFields
    /\ tx.type = "Token Mint" =>
         DOMAIN tx = CommonFields \cup {"amount"} /\ tx.amount > 0
    /\ tx.type = "Token Transfer" =>
         /\ DOMAIN tx = CommonFields \cup {"amount", "recipient"}
         /\ tx.amount > 0
         /\ IsPublicKey(tx.recipient)

\* The log holds a record of each kind.
C30_Witness ==
  /\ Len(transactionHistory) = 3
  /\ transactionHistory[1].type = "Token Creation"
  /\ transactionHistory[2].type = "Token Mint"
  /\ transactionHistory[3].type = "Token Transfer"
  /\ transactionHistory[3].recipient = "R1"

====
